---- MODULE Spec2Model ----
(***************************************************************************)
(* BidBeam: the matching engine (backend/order_book.py), the client-side   *)
(* book replica (backend/market_data_model.py) and the market-data fan-out *)
(* (backend/market_data_server.py), for one instrument; the servicer's     *)
(* registry of instruments, its lock and its event loop are modelled for   *)
(* several instruments at the end of the model.                            *)
(*                                                                         *)
(* Prices are the integers 1..MaxPrice (the code uses floats rounded to    *)
(* two decimals; only their order and equality are used).  Python lists    *)
(* are sequences; positions in the heap code are 0-based as in heapq and   *)
(* are translated by Get/Set.                                              *)
(*                                                                         *)
(* Specifications: Spec (the engine alone), SpecInvalid (the engine called *)
(* with unchecked values), SpecFeed (engine, servicer and clients with     *)
(* subscriptions that stay), SpecSession (engine and servicer with         *)
(* subscriptions that come and go), SpecClient (one ClientOrderBook fed    *)
(* any responses), SpecReplica (one ClientOrderBook called in any order),  *)
(* SpecServicer (the servicer with several instruments, its simulation     *)
(* threads and the coroutines of its event loop).                          *)
(***************************************************************************)
EXTENDS Integers, Sequences, FiniteSets, TLC

\* ------------------------------------------------------------------ bounds
MaxPrice == 2
MaxQty == 2
MaxOrders == 4
MaxFeedOrders == 2
MaxClients == 2
MaxInvalidOrders == 2
MaxSessionOrders == 3
MaxHeapLen == 3
MaxServicerOrders == 3

Prices == 1..MaxPrice
Quantities == 1..MaxQty
OrderTypes == {"limit", "market"}
\* time.time() read by two successive Order constructions: equal, or later
Ticks == {0, 1}
Clients == 1..MaxClients

VARIABLES
    buy_heap,          \* OrderBook.buy_heap: list of Order kept as a heapq heap
    sell_heap,         \* OrderBook.sell_heap
    trade_log,         \* OrderBook.trade_log
    order_id_counter,  \* _order_id_counter
    now,               \* the clock read by time.time()
    pc,                \* position of the thread that calls add_order
    order,             \* the Order being processed by add_order
    emitted,           \* history: every _notify_update call, with the book's
                       \* aggregate levels at the moment of the call
    emit_mark,         \* history: Len(emitted) when the running add_order began
    entry,             \* history: the Order as the last add_order call received
                       \* it, with dump_book and Len(trade_log) at that moment
    submitted,         \* history: the quantity and the order_type of every
                       \* Order as add_order received it, by order_id
    loop,              \* MarketDataServicer.loop is set
    loop_tasks,        \* _put_response_into_queue coroutines scheduled on the loop
    client_queues,     \* MarketDataServicer.client_queues[instrument]
    queue,             \* the asyncio.Queue of each subscription
    session,           \* position of each SubscribeMarketData generator
    stream,            \* responses yielded to each subscriber, not yet received
    client,            \* the ClientOrderBook of each subscriber
    applied,           \* history: the seq of the update each client applied
                       \* last (0: none since its snapshot)
    running_simulations, \* MarketDataServicer.running_simulations[instrument]
    snap_seq,          \* history: Len(emitted) when the dump_book of each
                       \* subscription's snapshot was read
    yielded,           \* history: the number of responses each
                       \* SubscribeMarketData generator has yielded
    call,              \* history: the last call made on a ClientOrderBook
                       \* by name, with its argument and returned value
    servicer,          \* MarketDataServicer with every instrument: order_books,
                       \* client_queues, lock, simulation_threads,
                       \* running_simulations, loop
    subscriptions,     \* each SubscribeMarketData call on that servicer: its
                       \* position, instrument, queue and yielded responses
    event_loop         \* the asyncio loop of that servicer: the tasks ready
                       \* to run, the coroutine suspended in wait_for

book_vars == <<buy_heap, sell_heap, trade_log, order_id_counter, now, pc, order,
               emitted, emit_mark, entry, submitted>>
servicer_vars == <<servicer, subscriptions, event_loop>>
feed_vars == <<loop, loop_tasks, client_queues, queue, session, stream, client,
               applied, running_simulations, snap_seq, yielded, call>>
vars == <<buy_heap, sell_heap, trade_log, order_id_counter, now, pc, order,
          emitted, emit_mark, entry, submitted, loop, loop_tasks, client_queues,
          queue, session, stream, client, applied, running_simulations, snap_seq,
          yielded, call, servicer, subscriptions, event_loop>>

\* ------------------------------------------------------------ order_book.py
NoOrder == [order_id |-> 0, price |-> 0, quantity |-> 0, side |-> TRUE,
            order_type |-> "none", timestamp |-> 0]

Order(order_id, price, quantity, side, order_type, timestamp) ==
    [order_id |-> order_id, price |-> price, quantity |-> quantity,
     side |-> side, order_type |-> order_type, timestamp |-> timestamp]

Trade(buy_order_id, sell_order_id, price, quantity, timestamp) ==
    [buy_order_id |-> buy_order_id, sell_order_id |-> sell_order_id,
     price |-> price, quantity |-> quantity, timestamp |-> timestamp]

\* mutant of OrderLt: the timestamp is compared before the price
OrderLtTimeFirst(self, other) ==
    IF self.timestamp # other.timestamp
    THEN self.timestamp < other.timestamp
    ELSE IF self.side THEN self.price > other.price ELSE self.price < other.price

\* Order.__lt__, the side of self deciding the direction
OrderLt(self, other) ==
    IF self.side
    THEN IF self.price # other.price
         THEN self.price > other.price
         ELSE self.timestamp < other.timestamp
    ELSE IF self.price # other.price
         THEN self.price < other.price
         ELSE self.timestamp < other.timestamp

\* heapq on a Python list (0-based positions)
Get(heap, i) == heap[i + 1]
Set(heap, i, x) == [heap EXCEPT ![i + 1] = x]

RECURSIVE SiftDownLoop(_, _, _, _)
SiftDownLoop(heap, startpos, pos, newitem) ==
    IF pos > startpos
    THEN LET parentpos == (pos - 1) \div 2
             parent == Get(heap, parentpos)
         IN  IF OrderLt(newitem, parent)
             THEN SiftDownLoop(Set(heap, pos, parent), startpos, parentpos, newitem)
             ELSE Set(heap, pos, newitem)
    ELSE Set(heap, pos, newitem)

siftdown(heap, startpos, pos) == SiftDownLoop(heap, startpos, pos, Get(heap, pos))

\* the loop of heapq._siftup: <<heap, pos>> when the leaf is reached
RECURSIVE SiftUpLoop(_, _, _)
SiftUpLoop(heap, pos, childpos) ==
    IF childpos < Len(heap)
    THEN LET rightpos == childpos + 1
             c == IF rightpos < Len(heap)
                     /\ ~OrderLt(Get(heap, childpos), Get(heap, rightpos))
                  THEN rightpos ELSE childpos
         IN  SiftUpLoop(Set(heap, pos, Get(heap, c)), c, 2 * c + 1)
    ELSE <<heap, pos>>

siftup(heap, pos) ==
    LET newitem == Get(heap, pos)
        r == SiftUpLoop(heap, pos, 2 * pos + 1)
    IN  siftdown(Set(r[1], r[2], newitem), pos, r[2])

heappush(heap, item) == siftdown(Append(heap, item), 0, Len(heap))

\* the list after heapq.heappop (the code discards the returned item)
heappop(heap) ==
    LET lastelt == heap[Len(heap)]
        rest == SubSeq(heap, 1, Len(heap) - 1)
    IN  IF rest # <<>> THEN siftup(Set(rest, 0, lastelt), 0) ELSE rest

\* mutant of Levels: levels[price] = quantity, the last order of a price wins
RECURSIVE LevelsOverwrite(_)
LevelsOverwrite(heap) ==
    IF heap = <<>> THEN <<>>
    ELSE LET levels == LevelsOverwrite(SubSeq(heap, 1, Len(heap) - 1))
             o == heap[Len(heap)]
         IN  IF o.price \in DOMAIN levels
             THEN [levels EXCEPT ![o.price] = o.quantity]
             ELSE (o.price :> o.quantity) @@ levels

\* dump_book: the dict price -> summed quantity of one heap, in list order
RECURSIVE Levels(_)
Levels(heap) ==
    IF heap = <<>> THEN <<>>
    ELSE LET levels == Levels(SubSeq(heap, 1, Len(heap) - 1))
             o == heap[Len(heap)]
         IN  IF o.price \in DOMAIN levels
             THEN [levels EXCEPT ![o.price] = @ + o.quantity]
             ELSE (o.price :> o.quantity) @@ levels

\* mutant of SortedItems: reverse is ignored, both sides come out ascending
RECURSIVE SortedItemsAscending(_, _)
SortedItemsAscending(levels, reverse) ==
    IF DOMAIN levels = {} THEN <<>>
    ELSE LET ps == DOMAIN levels
             first == CHOOSE p \in ps : \A q \in ps : p <= q
         IN  <<(<<first, levels[first]>>)>>
             \o SortedItemsAscending([p \in ps \ {first} |-> levels[p]], reverse)

\* sorted(levels.items()) and sorted(levels.items(), reverse=True)
RECURSIVE SortedItems(_, _)
SortedItems(levels, reverse) ==
    IF DOMAIN levels = {} THEN <<>>
    ELSE LET ps == DOMAIN levels
             first == IF reverse
                      THEN CHOOSE p \in ps : \A q \in ps : q <= p
                      ELSE CHOOSE p \in ps : \A q \in ps : p <= q
         IN  <<(<<first, levels[first]>>)>>
             \o SortedItems([p \in ps \ {first} |-> levels[p]], reverse)

dump_book(bh, sh) ==
    [bids |-> SortedItems(Levels(bh), TRUE), asks |-> SortedItems(Levels(sh), FALSE)]

\* ------------------------------------------------------ market_data_model.py
\* ClientOrderBook.__init__
ClientOrderBook ==
    [bids |-> <<>>, bid_heap |-> <<>>, asks |-> <<>>, ask_heap |-> <<>>,
     last_update_timestamp |-> 0]

\* an entry of _bid_heap, (-price, price), or of _ask_heap, (price, price):
\* OrderLt orders these records as Python orders the tuples (higher price
\* first for bids, lower price first for asks, equal prices not less)
HeapEntry(price, side) == [price |-> price, side |-> side, timestamp |-> 0]

\* for level in levels: heapq.heappush(heap, entry of level.price)
RECURSIVE PushLevels(_, _, _)
PushLevels(heap, levels, side) ==
    IF levels = <<>> THEN heap
    ELSE PushLevels(heappush(heap, HeapEntry(Head(levels)[1], side)),
                    Tail(levels), side)

\* for level in levels: d[level.price] = level.quantity
RECURSIVE FillLevels(_, _)
FillLevels(d, levels) ==
    IF levels = <<>> THEN d
    ELSE LET level == Head(levels)
         IN  FillLevels((level[1] :> level[2]) @@ d, Tail(levels))

\* mutant of apply_snapshot: the dicts are not cleared first
apply_snapshot_merge(self, snapshot) ==
    [bids |-> FillLevels(self.bids, snapshot.bids),
     bid_heap |-> PushLevels(<<>>, snapshot.bids, TRUE),
     asks |-> FillLevels(self.asks, snapshot.asks),
     ask_heap |-> PushLevels(<<>>, snapshot.asks, FALSE),
     last_update_timestamp |-> snapshot.timestamp]

apply_snapshot(self, snapshot) ==
    [bids |-> FillLevels(<<>>, snapshot.bids),
     bid_heap |-> PushLevels(<<>>, snapshot.bids, TRUE),
     asks |-> FillLevels(<<>>, snapshot.asks),
     ask_heap |-> PushLevels(<<>>, snapshot.asks, FALSE),
     last_update_timestamp |-> snapshot.timestamp]

\* mutant of UpdateDict: quantity 0 is stored like any other quantity
UpdateDictKeepZero(target_dict, update) ==
    (update.price :> update.quantity) @@ target_dict

\* the dict after target_dict[price] = quantity / del target_dict[price]
UpdateDict(target_dict, update) ==
    IF update.quantity > 0
    THEN (update.price :> update.quantity) @@ target_dict
    ELSE [p \in DOMAIN target_dict \ {update.price} |-> target_dict[p]]

\* the heap after: if quantity > 0 and price not in target_dict: heappush
UpdateHeap(target_heap, target_dict, update) ==
    IF update.quantity > 0 /\ update.price \notin DOMAIN target_dict
    THEN heappush(target_heap, HeapEntry(update.price, update.side))
    ELSE target_heap

apply_update(self, update) ==
    IF update.side
    THEN [self EXCEPT !.bids = UpdateDict(self.bids, update),
                      !.bid_heap = UpdateHeap(self.bid_heap, self.bids, update),
                      !.last_update_timestamp = update.timestamp]
    ELSE [self EXCEPT !.asks = UpdateDict(self.asks, update),
                      !.ask_heap = UpdateHeap(self.ask_heap, self.asks, update),
                      !.last_update_timestamp = update.timestamp]

\* (None, None)
None == <<>>

\* the loop of get_best_bid / get_best_ask: the heap once every entry at its
\* top that the dict does not hold with a quantity above 0 is popped
RECURSIVE PopStale(_, _)
PopStale(heap, dict) ==
    IF heap = <<>> THEN heap
    ELSE LET price == Get(heap, 0).price
         IN  IF price \in DOMAIN dict /\ dict[price] > 0
             THEN heap
             ELSE PopStale(heappop(heap), dict)

\* what get_best_bid / get_best_ask return
BestOf(heap, dict) ==
    LET left == PopStale(heap, dict)
    IN  IF left = <<>> THEN None
        ELSE <<Get(left, 0).price, dict[Get(left, 0).price]>>

\* get_best_bid: the returned value, and the book it leaves
get_best_bid(self) ==
    [result |-> BestOf(self.bid_heap, self.bids),
     self |-> [self EXCEPT !.bid_heap = PopStale(self.bid_heap, self.bids)]]

get_best_ask(self) ==
    [result |-> BestOf(self.ask_heap, self.asks),
     self |-> [self EXCEPT !.ask_heap = PopStale(self.ask_heap, self.asks)]]

\* sorted([(p, q) for p, q in d.items() if q > 0], reverse)[:n]
TopLevels(d, reverse, n) ==
    LET positive == [p \in {q \in DOMAIN d : d[q] > 0} |-> d[p]]
        sorted == SortedItems(positive, reverse)
    IN  SubSeq(sorted, 1, IF Len(sorted) < n THEN Len(sorted) ELSE n)

get_top_n_levels_list(self, n) ==
    [bids |-> TopLevels(self.bids, TRUE, n), asks |-> TopLevels(self.asks, FALSE, n)]

\* def get_top_n_levels_list(self, n=5)
TopN == 5

\* to_dict (display_book in the command-line client): the book after the
\* get_best_bid and get_best_ask calls made to show it
to_dict(self) == get_best_ask(get_best_bid(self).self).self

\* ------------------------------------------- the messages of the feed (pb2)
\* pb2.OrderBookUpdate built by on_market_update_callback; seq is a history
\* tag (the index of the _notify_update call), read by no modelled code
OrderBookUpdate(price, quantity, side, timestamp, seq) ==
    [kind |-> "update", price |-> price, quantity |-> quantity, side |-> side,
     timestamp |-> timestamp, seq |-> seq]

OrderBookSnapshot(bids, asks, timestamp) ==
    [kind |-> "snapshot", bids |-> bids, asks |-> asks, timestamp |-> timestamp]

\* mutant of on_market_update_callback: the caller waits until the loop has
\* run the coroutines scheduled before (future.result())
on_market_update_callback_wait(update) ==
    /\ loop_tasks = <<>>
    /\ loop_tasks' = IF loop THEN Append(loop_tasks, update) ELSE loop_tasks

\* on_market_update_callback: schedule _put_response_into_queue on the loop,
\* or drop the update while the loop is not set
on_market_update_callback(update) ==
    loop_tasks' = IF loop THEN Append(loop_tasks, update) ELSE loop_tasks

\* _notify_update, called after the heaps of this step are settled
notify_update(price, quantity, side) ==
    LET update == OrderBookUpdate(price, quantity, side, now, Len(emitted) + 1)
    IN  /\ emitted' = Append(emitted,
                             [update |-> update,
                              book |-> dump_book(buy_heap', sell_heap')])
        /\ on_market_update_callback(update)

\* ----------------------------------------------- order_book.py: the engine
\* mutant of Min: the whole incoming quantity is traded
MinTakesAll(a, b) == a

\* trade_qty = min(buy_order.quantity, best_sell.quantity)
Min(a, b) == IF a < b THEN a ELSE b

\* mutant of PriceCompatibleBuy: an ask at the buyer's own limit stops the loop
PriceCompatibleBuyLoose(buy_order, best_sell) ==
    ~(buy_order.order_type = "limit" /\ best_sell.price >= buy_order.price)

\* the price test of _match_buy / _match_sell that lets the loop go on
PriceCompatibleBuy(buy_order, best_sell) ==
    ~(buy_order.order_type = "limit" /\ best_sell.price > buy_order.price)

PriceCompatibleSell(sell_order, best_buy) ==
    ~(sell_order.order_type = "limit" /\ best_buy.price < sell_order.price)

\* mutant of TradePrice: the trade is priced at the incoming order's price
TakerPrice(incoming, resting) == incoming.price

\* trade_price = best_sell.price / best_buy.price
TradePrice(incoming, resting) == resting.price

\* mutant of RestsOnBook: what is left of a market order is pushed too
RestsOnBookAnyType(o) == o.quantity > 0

\* if order.quantity > 0 and order.order_type == "limit": heappush
RestsOnBook(o) == o.quantity > 0 /\ o.order_type = "limit"

\* the while condition and the break of _match_buy / _match_sell
CanMatchBuy ==
    /\ order.quantity > 0
    /\ sell_heap # <<>>
    /\ PriceCompatibleBuy(order, Get(sell_heap, 0))

CanMatchSell ==
    /\ order.quantity > 0
    /\ buy_heap # <<>>
    /\ PriceCompatibleSell(order, Get(buy_heap, 0))

\* add_order is entered with a new Order (made as _simulate_market_data makes it)
add_order(price, quantity, side, order_type, tick, max_orders) ==
    /\ pc = "idle"
    /\ order_id_counter < max_orders
    /\ now' = now + tick
    /\ order_id_counter' = order_id_counter + 1
    /\ order' = Order(order_id_counter + 1, price, quantity, side, order_type, now + tick)
    /\ pc' = "match"
    /\ entry' = [order |-> Order(order_id_counter + 1, price, quantity, side,
                                 order_type, now + tick),
                 book |-> dump_book(buy_heap, sell_heap),
                 trades |-> Len(trade_log)]
    /\ submitted' = Append(submitted,
           [quantity |-> quantity, order_type |-> order_type])
    /\ UNCHANGED <<buy_heap, sell_heap, trade_log, emitted, emit_mark>>
    /\ UNCHANGED <<feed_vars, servicer_vars>>

\* one iteration of the loop of _match_buy
match_buy ==
    /\ pc = "match"
    /\ order.side
    /\ CanMatchBuy
    /\ LET best_sell == Get(sell_heap, 0)
           trade_qty == Min(order.quantity, best_sell.quantity)
           trade_price == TradePrice(order, best_sell)
           left == best_sell.quantity - trade_qty
           decremented == Set(sell_heap, 0, [best_sell EXCEPT !.quantity = left])
       IN  /\ trade_log' = Append(trade_log,
                  Trade(order.order_id, best_sell.order_id, trade_price, trade_qty, now))
           /\ order' = [order EXCEPT !.quantity = @ - trade_qty]
           /\ buy_heap' = buy_heap
           /\ IF left = 0
              THEN /\ sell_heap' = heappop(decremented)
                   /\ notify_update(best_sell.price, 0, FALSE)
              ELSE /\ sell_heap' = decremented
                   /\ notify_update(best_sell.price, left, FALSE)
    /\ UNCHANGED <<order_id_counter, now, pc, emit_mark, entry, submitted>>
    /\ UNCHANGED <<loop, client_queues, queue, session, stream, client, applied,
                   running_simulations, snap_seq, yielded, call>>
    /\ UNCHANGED servicer_vars

\* one iteration of the loop of _match_sell
match_sell ==
    /\ pc = "match"
    /\ ~order.side
    /\ CanMatchSell
    /\ LET best_buy == Get(buy_heap, 0)
           trade_qty == Min(order.quantity, best_buy.quantity)
           trade_price == TradePrice(order, best_buy)
           left == best_buy.quantity - trade_qty
           decremented == Set(buy_heap, 0, [best_buy EXCEPT !.quantity = left])
       IN  /\ trade_log' = Append(trade_log,
                  Trade(best_buy.order_id, order.order_id, trade_price, trade_qty, now))
           /\ order' = [order EXCEPT !.quantity = @ - trade_qty]
           /\ sell_heap' = sell_heap
           /\ IF left = 0
              THEN /\ buy_heap' = heappop(decremented)
                   /\ notify_update(best_buy.price, 0, TRUE)
              ELSE /\ buy_heap' = decremented
                   /\ notify_update(best_buy.price, left, TRUE)
    /\ UNCHANGED <<order_id_counter, now, pc, emit_mark, entry, submitted>>
    /\ UNCHANGED <<loop, client_queues, queue, session, stream, client, applied,
                   running_simulations, snap_seq, yielded, call>>
    /\ UNCHANGED servicer_vars

\* the matching loop is left; add_order pushes what is left of a limit order
\* and returns
add_order_rest ==
    /\ pc = "match"
    /\ IF order.side THEN ~CanMatchBuy ELSE ~CanMatchSell
    /\ IF RestsOnBook(order)
       THEN IF order.side
            THEN buy_heap' = heappush(buy_heap, order) /\ sell_heap' = sell_heap
            ELSE sell_heap' = heappush(sell_heap, order) /\ buy_heap' = buy_heap
       ELSE UNCHANGED <<buy_heap, sell_heap>>
    /\ pc' = "idle"
    /\ order' = NoOrder
    /\ emit_mark' = Len(emitted)
    /\ UNCHANGED <<trade_log, order_id_counter, now, emitted, entry, submitted>>
    /\ UNCHANGED <<feed_vars, servicer_vars>>

\* ------------------------------------------------------ market_data_server.py
\* The coroutines of the event loop run one at a time and give way only at an
\* await or a yield: nothing else of the loop runs between the attach and the
\* snapshot of one SubscribeMarketData call.
LoopFree == \A c \in Clients : session[c] # "attached"

\* mutant of subscribe_attach: the generator goes straight to streaming its
\* queue, no snapshot is sent
subscribe_attach_streaming(c) ==
    /\ LoopFree
    /\ session[c] = "none"
    /\ loop' = TRUE
    /\ queue' = [queue EXCEPT ![c] = <<>>]
    /\ client_queues' = Append(client_queues, c)
    /\ session' = [session EXCEPT ![c] = "streaming"]
    /\ UNCHANGED <<loop_tasks, stream, client, applied, running_simulations,
                   snap_seq, yielded>>
    /\ UNCHANGED call
    /\ UNCHANGED <<book_vars, servicer_vars>>

\* SubscribeMarketData up to the end of the locked region: the loop is
\* recorded, the new queue is registered (the instrument is one of
\* SIMULATED_INSTRUMENTS, its book exists)
subscribe_attach(c) ==
    /\ LoopFree
    /\ session[c] = "none"
    /\ loop' = TRUE
    /\ queue' = [queue EXCEPT ![c] = <<>>]
    /\ client_queues' = Append(client_queues, c)
    /\ session' = [session EXCEPT ![c] = "attached"]
    /\ UNCHANGED <<loop_tasks, stream, client, applied, running_simulations,
                   snap_seq, yielded>>
    /\ UNCHANGED call
    /\ UNCHANGED <<book_vars, servicer_vars>>

\* SubscribeMarketData: dump_book is read and the snapshot is yielded
subscribe_snapshot(c) ==
    /\ session[c] = "attached"
    /\ LET snapshot_data == dump_book(buy_heap, sell_heap)
       IN  stream' = [stream EXCEPT ![c] =
               Append(@, OrderBookSnapshot(snapshot_data.bids, snapshot_data.asks, now))]
    /\ session' = [session EXCEPT ![c] = "streaming"]
    /\ snap_seq' = [snap_seq EXCEPT ![c] = Len(emitted)]
    /\ yielded' = [yielded EXCEPT ![c] = @ + 1]
    /\ UNCHANGED <<loop, loop_tasks, client_queues, queue, client, applied,
                   running_simulations>>
    /\ UNCHANGED call
    /\ UNCHANGED <<book_vars, servicer_vars>>

\* the heaps as another thread sees them inside one iteration of _match_buy
\* / _match_sell, after the quantities are decremented (the print that
\* follows gives way to other threads) and before the heappop and the
\* _notify_update
TornBook ==
    IF order.side
    THEN LET best_sell == Get(sell_heap, 0)
             trade_qty == Min(order.quantity, best_sell.quantity)
         IN  dump_book(buy_heap,
                       Set(sell_heap, 0, [best_sell EXCEPT !.quantity = @ - trade_qty]))
    ELSE LET best_buy == Get(buy_heap, 0)
             trade_qty == Min(order.quantity, best_buy.quantity)
         IN  dump_book(Set(buy_heap, 0, [best_buy EXCEPT !.quantity = @ - trade_qty]),
                       sell_heap)

\* SubscribeMarketData: dump_book is read, with no lock, while the
\* simulation thread is inside an iteration of the matching loop; the
\* snapshot is yielded
subscribe_snapshot_torn(c) ==
    /\ session[c] = "attached"
    /\ pc = "match"
    /\ IF order.side THEN CanMatchBuy ELSE CanMatchSell
    /\ stream' = [stream EXCEPT ![c] =
           Append(@, OrderBookSnapshot(TornBook.bids, TornBook.asks, now))]
    /\ session' = [session EXCEPT ![c] = "streaming"]
    /\ snap_seq' = [snap_seq EXCEPT ![c] = Len(emitted)]
    /\ yielded' = [yielded EXCEPT ![c] = @ + 1]
    /\ UNCHANGED <<loop, loop_tasks, client_queues, queue, client, applied,
                   running_simulations, call>>
    /\ UNCHANGED <<book_vars, servicer_vars>>

\* for client_queue in self.client_queues[instrument_id]: put(response)
RECURSIVE PutAll(_, _, _)
PutAll(queues, registered, response) ==
    IF registered = <<>> THEN queues
    ELSE PutAll([queues EXCEPT ![Head(registered)] = Append(@, response)],
                Tail(registered), response)

\* the oldest scheduled _put_response_into_queue coroutine runs (the queues
\* are unbounded: no put waits)
put_response_into_queue ==
    /\ LoopFree
    /\ loop_tasks # <<>>
    /\ queue' = PutAll(queue, client_queues, Head(loop_tasks))
    /\ loop_tasks' = Tail(loop_tasks)
    /\ UNCHANGED <<loop, client_queues, session, stream, client, applied,
                   running_simulations, snap_seq, yielded>>
    /\ UNCHANGED call
    /\ UNCHANGED <<book_vars, servicer_vars>>

\* mutant of QueueGet: the newest item is taken (asyncio.LifoQueue)
QueueGetLifo(q) == [item |-> q[Len(q)], rest |-> SubSeq(q, 1, Len(q) - 1)]

\* asyncio.Queue.get: the oldest item, and the queue without it
QueueGet(q) == [item |-> Head(q), rest |-> Tail(q)]

\* SubscribeMarketData: response = await client_queue.get(); yield response
stream_update(c) ==
    /\ LoopFree
    /\ session[c] = "streaming"
    /\ queue[c] # <<>>
    /\ stream' = [stream EXCEPT ![c] = Append(@, QueueGet(queue[c]).item)]
    /\ queue' = [queue EXCEPT ![c] = QueueGet(@).rest]
    /\ yielded' = [yielded EXCEPT ![c] = @ + 1]
    /\ UNCHANGED <<loop, loop_tasks, client_queues, session, client, applied,
                   running_simulations, snap_seq>>
    /\ UNCHANGED call
    /\ UNCHANGED <<book_vars, servicer_vars>>

\* mutant of RemoveQueue: the queue stays registered
RemoveQueueNot(queues, c) == queues

\* if client_queue in client_queues: client_queues.remove(client_queue)
RemoveQueue(queues, c) == SelectSeq(queues, LAMBDA d : d # c)

\* SubscribeMarketData is left (RpcError, CancelledError or the generator is
\* closed while it waits at a yield or at client_queue.get()): the finally
\* block unregisters the queue and stops the simulation of an instrument
\* that has no subscriber left
subscribe_exit(c) ==
    /\ LoopFree
    /\ session[c] = "streaming"
    /\ client_queues' = RemoveQueue(client_queues, c)
    /\ running_simulations' =
         IF RemoveQueue(client_queues, c) = <<>> THEN FALSE ELSE running_simulations
    /\ session' = [session EXCEPT ![c] = "exited"]
    /\ UNCHANGED <<loop, loop_tasks, queue, stream, client, applied, snap_seq,
                   yielded>>
    /\ UNCHANGED call
    /\ UNCHANGED <<book_vars, servicer_vars>>

\* market_data_client.py, frontend/main.py: one iteration of async for
\* response in response_iterator: the response is applied and the book is
\* shown (display_book / to_dict)
client_receive(c) ==
    /\ stream[c] # <<>>
    /\ LET response == Head(stream[c])
       IN  IF response.kind = "snapshot"
           THEN /\ client' = [client EXCEPT ![c] = to_dict(apply_snapshot(@, response))]
                /\ applied' = [applied EXCEPT ![c] = 0]
           ELSE /\ client' = [client EXCEPT ![c] = to_dict(apply_update(@, response))]
                /\ applied' = [applied EXCEPT ![c] = response.seq]
    /\ stream' = [stream EXCEPT ![c] = Tail(@)]
    /\ UNCHANGED <<loop, loop_tasks, client_queues, queue, session,
                   running_simulations, snap_seq, yielded>>
    /\ UNCHANGED call
    /\ UNCHANGED <<book_vars, servicer_vars>>

\* ------------------------------------------------------------ specifications
\* ------------------------- market_data_server.py: the servicer's instruments
\* one of SIMULATED_INSTRUMENTS stands for the thirty of them
SIMULATED_INSTRUMENTS == {"BTC_USD"}

\* the instrument ids a SubscriptionRequest may carry: a pre-configured one
\* and one the servicer has not seen
Instruments == SIMULATED_INSTRUMENTS \cup {"NEW_USD"}

\* (the orders the simulation threads submit here: limit orders at one price)
ServicerPrices == {1}

\* OrderBook(instrument_id, on_market_update): serial tells the objects
\* constructed for one instrument_id apart (trade_log is not kept here)
OrderBook(instrument_id, serial) ==
    [instrument_id |-> instrument_id, serial |-> serial,
     buy_heap |-> <<>>, sell_heap |-> <<>>]

\* a MarketDataResponse: pb2.OrderBookUpdate / pb2.OrderBookSnapshot carry the
\* instrument_id
MarketDataResponse(instrument_id, message) ==
    [instrument_id |-> instrument_id] @@ message

\* _match_buy run to the end of its loop: the book, what is left of the order
\* and the updates notified, in order
RECURSIVE run_match_buy(_, _, _)
run_match_buy(book, buy_order, updates) ==
    IF /\ buy_order.quantity > 0
       /\ book.sell_heap # <<>>
       /\ PriceCompatibleBuy(buy_order, Get(book.sell_heap, 0))
    THEN LET best_sell == Get(book.sell_heap, 0)
             trade_qty == Min(buy_order.quantity, best_sell.quantity)
             left == best_sell.quantity - trade_qty
             decremented == Set(book.sell_heap, 0,
                                [best_sell EXCEPT !.quantity = left])
         IN  run_match_buy(
                 [book EXCEPT !.sell_heap =
                     IF left = 0 THEN heappop(decremented) ELSE decremented],
                 [buy_order EXCEPT !.quantity = @ - trade_qty],
                 Append(updates, MarketDataResponse(book.instrument_id,
                     OrderBookUpdate(best_sell.price, left, FALSE,
                                     buy_order.timestamp, 0))))
    ELSE [book |-> book, order |-> buy_order, updates |-> updates]

RECURSIVE run_match_sell(_, _, _)
run_match_sell(book, sell_order, updates) ==
    IF /\ sell_order.quantity > 0
       /\ book.buy_heap # <<>>
       /\ PriceCompatibleSell(sell_order, Get(book.buy_heap, 0))
    THEN LET best_buy == Get(book.buy_heap, 0)
             trade_qty == Min(sell_order.quantity, best_buy.quantity)
             left == best_buy.quantity - trade_qty
             decremented == Set(book.buy_heap, 0,
                                [best_buy EXCEPT !.quantity = left])
         IN  run_match_sell(
                 [book EXCEPT !.buy_heap =
                     IF left = 0 THEN heappop(decremented) ELSE decremented],
                 [sell_order EXCEPT !.quantity = @ - trade_qty],
                 Append(updates, MarketDataResponse(book.instrument_id,
                     OrderBookUpdate(best_buy.price, left, TRUE,
                                     sell_order.timestamp, 0))))
    ELSE [book |-> book, order |-> sell_order, updates |-> updates]

\* OrderBook.add_order run from call to return: the book it leaves and the
\* updates it passed to on_market_update
run_add_order(book, o) ==
    LET matched == IF o.side THEN run_match_buy(book, o, <<>>)
                   ELSE run_match_sell(book, o, <<>>)
        left == matched.order
    IN  [book |-> IF RestsOnBook(left)
                  THEN IF left.side
                       THEN [matched.book EXCEPT !.buy_heap = heappush(@, left)]
                       ELSE [matched.book EXCEPT !.sell_heap = heappush(@, left)]
                  ELSE matched.book,
         updates |-> matched.updates]

\* MarketDataServicer.__init__: a book and a started simulation thread for
\* every instrument of SIMULATED_INSTRUMENTS.  order_books[i] is None and
\* simulation_threads[i] is 0 while the dict has no key i; simulation_threads
\* counts the threads started for i, books_created the OrderBook objects
\* constructed for it
MarketDataServicer ==
    [order_books |-> [i \in Instruments |->
         IF i \in SIMULATED_INSTRUMENTS THEN OrderBook(i, 1) ELSE None],
     client_queues |-> [i \in Instruments |-> <<>>],
     lock |-> FALSE,
     simulation_threads |-> [i \in Instruments |->
         IF i \in SIMULATED_INSTRUMENTS THEN 1 ELSE 0],
     running_simulations |-> [i \in Instruments |-> i \in SIMULATED_INSTRUMENTS],
     loop |-> FALSE,
     books_created |-> [i \in Instruments |->
         IF i \in SIMULATED_INSTRUMENTS THEN 1 ELSE 0]]

\* a SubscribeMarketData call nobody has made yet
NoSubscription ==
    [state |-> "none", instrument_id |-> "", queue |-> <<>>, yielded |-> <<>>,
     book |-> None]

\* a task of the event loop
Task(kind, c, instrument_id, response, rest) ==
    [kind |-> kind, c |-> c, instrument_id |-> instrument_id,
     response |-> response, rest |-> rest]

\* the event loop: the tasks ready to run in call_soon order; whether the
\* loop's thread is stuck in lock.acquire(); whether asyncio.wait_for gives
\* way to the loop before its awaitable has run ("unknown" until the first
\* wait_for: it does up to Python 3.11, and does not from 3.12 on when the
\* awaitable completes without waiting)
EventLoop == [ready |-> <<>>, blocked |-> FALSE, wait_for |-> "unknown"]

\* a client calls SubscribeMarketData(instrument_id): the generator is
\* scheduled on the loop
subscribe_request(c, instrument_id) ==
    /\ subscriptions[c].state = "none"
    /\ subscriptions' = [subscriptions EXCEPT ![c] =
           [@ EXCEPT !.state = "requested", !.instrument_id = instrument_id]]
    /\ event_loop' = [event_loop EXCEPT !.ready =
           Append(@, Task("SubscribeMarketData", c, instrument_id, None, <<>>))]
    /\ UNCHANGED servicer
    /\ UNCHANGED <<book_vars, feed_vars>>

\* mutant of InOrderBooks: no instrument is ever found in order_books
InOrderBooksNever(self, instrument_id) == FALSE

\* instrument_id in self.order_books
InOrderBooks(self, instrument_id) == self.order_books[instrument_id] # None

\* the body of "with self.lock:" in SubscribeMarketData: the book and the
\* thread are made when the instrument is not in order_books
attach(self, c, instrument_id) ==
    LET made == IF InOrderBooks(self, instrument_id) THEN self
                ELSE [self EXCEPT
                        !.order_books[instrument_id] =
                            OrderBook(instrument_id,
                                      self.books_created[instrument_id] + 1),
                        !.books_created[instrument_id] = @ + 1,
                        !.running_simulations[instrument_id] = TRUE,
                        !.simulation_threads[instrument_id] = @ + 1]
    IN  [made EXCEPT !.client_queues[instrument_id] = Append(@, c)]

\* the loop runs SubscribeMarketData up to its first yield: the loop is set,
\* the queue is attached under the lock, dump_book is read and the snapshot
\* is yielded; the thread stays in lock.acquire() when a suspended coroutine
\* holds the lock
run_SubscribeMarketData ==
    /\ ~event_loop.blocked
    /\ event_loop.ready # <<>>
    /\ Head(event_loop.ready).kind = "SubscribeMarketData"
    /\ LET task == Head(event_loop.ready)
           c == task.c
           instrument_id == task.instrument_id
           attached == attach([servicer EXCEPT !.loop = TRUE], c, instrument_id)
           book == attached.order_books[instrument_id]
           snapshot_data == dump_book(book.buy_heap, book.sell_heap)
       IN  IF servicer.lock
           THEN /\ event_loop' = [event_loop EXCEPT !.ready = Tail(@),
                                                    !.blocked = TRUE]
                /\ servicer' = [servicer EXCEPT !.loop = TRUE]
                /\ UNCHANGED subscriptions
           ELSE /\ event_loop' = [event_loop EXCEPT !.ready = Tail(@)]
                /\ servicer' = attached
                /\ subscriptions' = [subscriptions EXCEPT ![c] =
                       [@ EXCEPT !.state = "streaming",
                                 !.book = <<instrument_id, book.serial>>,
                                 !.yielded = Append(@,
                                     MarketDataResponse(instrument_id,
                                         OrderBookSnapshot(snapshot_data.bids,
                                                           snapshot_data.asks,
                                                           order_id_counter)))]]
    /\ UNCHANGED <<book_vars, feed_vars>>

\* the stream loop of SubscribeMarketData: await client_queue.get(), yield
stream_response(c) ==
    /\ ~event_loop.blocked
    /\ subscriptions[c].state = "streaming"
    /\ subscriptions[c].queue # <<>>
    /\ subscriptions' = [subscriptions EXCEPT ![c] =
           [@ EXCEPT !.queue = Tail(@),
                     !.yielded = Append(@, Head(subscriptions[c].queue))]]
    /\ UNCHANGED <<servicer, event_loop>>
    /\ UNCHANGED <<book_vars, feed_vars>>

\* the client goes away: the generator is cancelled at its await and its
\* finally block is scheduled
cancel(c) ==
    /\ subscriptions[c].state = "streaming"
    /\ subscriptions' = [subscriptions EXCEPT ![c] = [@ EXCEPT !.state = "cancelled"]]
    /\ event_loop' = [event_loop EXCEPT !.ready =
           Append(@, Task("finally", c, subscriptions[c].instrument_id, None, <<>>))]
    /\ UNCHANGED servicer
    /\ UNCHANGED <<book_vars, feed_vars>>

\* the finally block of SubscribeMarketData
run_finally ==
    /\ ~event_loop.blocked
    /\ event_loop.ready # <<>>
    /\ Head(event_loop.ready).kind = "finally"
    /\ LET task == Head(event_loop.ready)
           c == task.c
           instrument_id == task.instrument_id
           left == RemoveQueue(servicer.client_queues[instrument_id], c)
       IN  IF servicer.lock
           THEN /\ event_loop' = [event_loop EXCEPT !.ready = Tail(@),
                                                    !.blocked = TRUE]
                /\ UNCHANGED <<servicer, subscriptions>>
           ELSE /\ event_loop' = [event_loop EXCEPT !.ready = Tail(@)]
                /\ servicer' = [servicer EXCEPT
                       !.client_queues[instrument_id] = left,
                       !.running_simulations[instrument_id] =
                           IF left = <<>> THEN FALSE ELSE @]
                /\ subscriptions' = [subscriptions EXCEPT ![c] =
                       [@ EXCEPT !.state = "exited"]]
    /\ UNCHANGED <<book_vars, feed_vars>>

\* on_market_update_callback for every update of one add_order call:
\* run_coroutine_threadsafe schedules _put_response_into_queue on the loop,
\* or the update is dropped while the loop is not set
ScheduleUpdates(ready, self, updates) ==
    IF self.loop
    THEN ready \o [k \in DOMAIN updates |->
                      Task("_put_response_into_queue", 0,
                           updates[k].instrument_id, updates[k], <<>>)]
    ELSE ready

\* one turn of the loop of _simulate_market_data in the thread of an
\* instrument: an order is made and add_order is called on the instrument's
\* book
simulate_market_data(instrument_id) ==
    /\ servicer.simulation_threads[instrument_id] > 0
    /\ servicer.running_simulations[instrument_id]
    /\ order_id_counter < MaxServicerOrders
    /\ \E price \in ServicerPrices, quantity \in Quantities, side \in BOOLEAN :
         LET o == Order(order_id_counter + 1, price, quantity, side, "limit",
                        order_id_counter + 1)
             done == run_add_order(servicer.order_books[instrument_id], o)
         IN  /\ servicer' = [servicer EXCEPT
                    !.order_books[instrument_id] = done.book]
             /\ event_loop' = [event_loop EXCEPT !.ready =
                    ScheduleUpdates(@, servicer, done.updates)]
    /\ order_id_counter' = order_id_counter + 1
    /\ UNCHANGED subscriptions
    /\ UNCHANGED <<buy_heap, sell_heap, trade_log, now, pc, order, emitted,
                   emit_mark, entry, submitted>>
    /\ UNCHANGED feed_vars

\* mutant of QueuesOf: the queues of every instrument
QueuesOfAll(self, instrument_id) ==
    IF instrument_id \in SIMULATED_INSTRUMENTS
    THEN self.client_queues["BTC_USD"] \o self.client_queues["NEW_USD"]
    ELSE self.client_queues["NEW_USD"] \o self.client_queues["BTC_USD"]

\* self.client_queues[instrument_id]
QueuesOf(self, instrument_id) == self.client_queues[instrument_id]

\* client_queue.put(response) on an unbounded queue
queue_put(subs, c, response) ==
    [subs EXCEPT ![c] = [@ EXCEPT !.queue = Append(@, response)]]

RECURSIVE PutEach(_, _, _)
PutEach(subs, queues, response) ==
    IF queues = <<>> THEN subs
    ELSE PutEach(queue_put(subs, Head(queues), response), Tail(queues), response)

\* the loop runs _put_response_into_queue from its start: the lock is taken
\* (the thread stays in lock.acquire() when a suspended coroutine holds it);
\* for each queue of the instrument, wait_for(client_queue.put(response))
\* either completes at once or wraps the put in a task and suspends this
\* coroutine, the lock still held
run_put_response_into_queue ==
    /\ ~event_loop.blocked
    /\ event_loop.ready # <<>>
    /\ Head(event_loop.ready).kind = "_put_response_into_queue"
    /\ LET task == Head(event_loop.ready)
           queues == QueuesOf(servicer, task.instrument_id)
       IN  IF servicer.lock
           THEN /\ event_loop' = [event_loop EXCEPT !.ready = Tail(@),
                                                    !.blocked = TRUE]
                /\ UNCHANGED <<servicer, subscriptions>>
           ELSE IF queues = <<>>
           THEN /\ event_loop' = [event_loop EXCEPT !.ready = Tail(@)]
                /\ UNCHANGED <<servicer, subscriptions>>
           ELSE \E suspends \in BOOLEAN :
                  /\ event_loop.wait_for \in
                         {"unknown", IF suspends THEN "suspends" ELSE "returns"}
                  /\ IF suspends
                     THEN /\ event_loop' = [event_loop EXCEPT
                                 !.wait_for = "suspends",
                                 !.ready = Append(Tail(@),
                                     Task("queue.put", Head(queues),
                                          task.instrument_id, task.response,
                                          Tail(queues)))]
                          /\ servicer' = [servicer EXCEPT !.lock = TRUE]
                          /\ UNCHANGED subscriptions
                     ELSE /\ event_loop' = [event_loop EXCEPT
                                 !.wait_for = "returns", !.ready = Tail(@)]
                          /\ subscriptions' =
                                 PutEach(subscriptions, queues, task.response)
                          /\ UNCHANGED servicer
    /\ UNCHANGED <<book_vars, feed_vars>>

\* the task wait_for made runs client_queue.put(response); its completion
\* wakes _put_response_into_queue, which is scheduled again
run_queue_put ==
    /\ ~event_loop.blocked
    /\ event_loop.ready # <<>>
    /\ Head(event_loop.ready).kind = "queue.put"
    /\ LET task == Head(event_loop.ready)
       IN  /\ subscriptions' = queue_put(subscriptions, task.c, task.response)
           /\ event_loop' = [event_loop EXCEPT !.ready =
                  Append(Tail(@), Task("resume", 0, task.instrument_id,
                                       task.response, task.rest))]
    /\ UNCHANGED servicer
    /\ UNCHANGED <<book_vars, feed_vars>>

\* _put_response_into_queue goes on after its await: the next queue of the
\* for loop, or the end of "with self.lock:"
run_resume ==
    /\ ~event_loop.blocked
    /\ event_loop.ready # <<>>
    /\ Head(event_loop.ready).kind = "resume"
    /\ LET task == Head(event_loop.ready)
       IN  IF task.rest = <<>>
           THEN /\ event_loop' = [event_loop EXCEPT !.ready = Tail(@)]
                /\ servicer' = [servicer EXCEPT !.lock = FALSE]
           ELSE /\ event_loop' = [event_loop EXCEPT !.ready =
                       Append(Tail(@), Task("queue.put", Head(task.rest),
                                            task.instrument_id, task.response,
                                            Tail(task.rest)))]
                /\ UNCHANGED servicer
    /\ UNCHANGED subscriptions
    /\ UNCHANGED <<book_vars, feed_vars>>

Init ==
    /\ buy_heap = <<>>
    /\ sell_heap = <<>>
    /\ trade_log = <<>>
    /\ order_id_counter = 0
    /\ now = 0
    /\ pc = "idle"
    /\ order = NoOrder
    /\ emitted = <<>>
    /\ emit_mark = 0
    /\ entry = [order |-> NoOrder, book |-> dump_book(<<>>, <<>>), trades |-> 0]
    /\ submitted = <<>>
    /\ loop = FALSE
    /\ loop_tasks = <<>>
    /\ client_queues = <<>>
    /\ queue = [c \in Clients |-> <<>>]
    /\ session = [c \in Clients |-> "none"]
    /\ stream = [c \in Clients |-> <<>>]
    /\ client = [c \in Clients |-> ClientOrderBook]
    /\ applied = [c \in Clients |-> 0]
    /\ running_simulations = TRUE
    /\ snap_seq = [c \in Clients |-> 0]
    /\ yielded = [c \in Clients |-> 0]
    /\ call = [op |-> "none", self |-> 0, arg |-> None, result |-> None]
    /\ servicer = MarketDataServicer
    /\ subscriptions = [c \in Clients |-> NoSubscription]
    /\ event_loop = EventLoop

\* the engine alone: any orders, the update callback installed from the start
SubmitAny ==
    \E price \in Prices, quantity \in Quantities, side \in BOOLEAN,
       order_type \in OrderTypes, tick \in Ticks :
        add_order(price, quantity, side, order_type, tick, MaxOrders)

Next ==
    \/ SubmitAny
    \/ match_buy
    \/ match_sell
    \/ add_order_rest

Spec == Init /\ [][Next]_vars

\* the engine feeding subscribers through the servicer: the simulation
\* thread submits an order while running_simulations[instrument] is set
SubmitFeed ==
    /\ running_simulations
    /\ \E price \in Prices, quantity \in Quantities, side \in BOOLEAN,
          order_type \in OrderTypes :
           add_order(price, quantity, side, order_type, 1, MaxFeedOrders)

NextFeed ==
    \/ SubmitFeed
    \/ match_buy
    \/ match_sell
    \/ add_order_rest
    \/ \E c \in Clients : subscribe_attach(c)
    \/ \E c \in Clients : subscribe_snapshot(c)
    \/ put_response_into_queue
    \/ \E c \in Clients : stream_update(c)
    \/ \E c \in Clients : client_receive(c)

SpecFeed == Init /\ [][NextFeed]_vars

\* the servicer with subscriptions that come and go, fed by limit orders at
\* one price; stream keeps every response a subscription was sent
SessionPrices == {1}

SubmitSession ==
    /\ running_simulations
    /\ \E price \in SessionPrices, quantity \in Quantities, side \in BOOLEAN :
           add_order(price, quantity, side, "limit", 1, MaxSessionOrders)

NextSession ==
    \/ SubmitSession
    \/ match_buy
    \/ match_sell
    \/ add_order_rest
    \/ \E c \in Clients : subscribe_attach(c)
    \/ \E c \in Clients : subscribe_snapshot(c)
    \/ \E c \in Clients : subscribe_snapshot_torn(c)
    \/ put_response_into_queue
    \/ \E c \in Clients : stream_update(c)
    \/ \E c \in Clients : subscribe_exit(c)

SpecSession == Init /\ [][NextSession]_vars

\* one ClientOrderBook fed any responses: any update of a level (quantity 0
\* included) and any snapshot, instead of those one server run produces
AnyLevels(reverse) ==
    {SortedItems(levels, reverse) :
        levels \in UNION {[ps -> Quantities] : ps \in SUBSET Prices}}

AnyResponses ==
    {OrderBookUpdate(price, quantity, side, timestamp, 1) :
        price \in Prices, quantity \in 0..MaxQty, side \in BOOLEAN,
        timestamp \in Ticks}
    \cup {OrderBookSnapshot(bids, asks, timestamp) :
            bids \in AnyLevels(TRUE), asks \in AnyLevels(FALSE), timestamp \in Ticks}

\* the response iterator of a client hands it the next response (updates
\* only while the heap they may push on holds fewer than MaxHeapLen entries)
response_arrives(c) ==
    /\ stream[c] = <<>>
    /\ \E response \in AnyResponses :
         /\ response.kind = "update" =>
                Len(IF response.side THEN client[c].bid_heap ELSE client[c].ask_heap)
                    < MaxHeapLen
         /\ stream' = [stream EXCEPT ![c] = <<response>>]
    /\ UNCHANGED <<loop, loop_tasks, client_queues, queue, session, client, applied,
                   running_simulations, snap_seq, yielded>>
    /\ UNCHANGED call
    /\ UNCHANGED <<book_vars, servicer_vars>>

NextClient ==
    \/ response_arrives(1)
    \/ client_receive(1)

SpecClient == Init /\ [][NextClient]_vars

\* one ClientOrderBook called directly, in any order: apply_snapshot with
\* any snapshot (levels of quantity 0 included), apply_update with any
\* update, get_best_bid and get_best_ask; quantities are 0 or MaxQty, all
\* messages carry one timestamp
ReplicaQuantities == {0, MaxQty}

ReplicaLevels(reverse) ==
    {SortedItems(levels, reverse) :
        levels \in UNION {[ps -> ReplicaQuantities] : ps \in SUBSET Prices}}

ReplicaSnapshots ==
    {OrderBookSnapshot(bids, asks, 1) :
        bids \in ReplicaLevels(TRUE), asks \in ReplicaLevels(FALSE)}

ReplicaUpdates ==
    {OrderBookUpdate(price, quantity, side, 1, 1) :
        price \in Prices, quantity \in ReplicaQuantities, side \in BOOLEAN}

call_apply_snapshot(c) ==
    /\ \E snapshot \in ReplicaSnapshots :
         /\ client' = [client EXCEPT ![c] = apply_snapshot(@, snapshot)]
         /\ call' = [op |-> "apply_snapshot", self |-> c, arg |-> snapshot,
                     result |-> None]
    /\ UNCHANGED <<loop, loop_tasks, client_queues, queue, session, stream, applied,
                   running_simulations, snap_seq, yielded>>
    /\ UNCHANGED <<book_vars, servicer_vars>>

\* (updates only while the heap they may push on holds fewer than MaxHeapLen
\* entries)
call_apply_update(c) ==
    /\ \E update \in ReplicaUpdates :
         /\ Len(IF update.side THEN client[c].bid_heap ELSE client[c].ask_heap)
                < MaxHeapLen
         /\ client' = [client EXCEPT ![c] = apply_update(@, update)]
         /\ call' = [op |-> "apply_update", self |-> c, arg |-> update,
                     result |-> None]
    /\ UNCHANGED <<loop, loop_tasks, client_queues, queue, session, stream, applied,
                   running_simulations, snap_seq, yielded>>
    /\ UNCHANGED <<book_vars, servicer_vars>>

call_get_best_bid(c) ==
    /\ client' = [client EXCEPT ![c] = get_best_bid(@).self]
    /\ call' = [op |-> "get_best_bid", self |-> c, arg |-> None,
                result |-> get_best_bid(client[c]).result]
    /\ UNCHANGED <<loop, loop_tasks, client_queues, queue, session, stream, applied,
                   running_simulations, snap_seq, yielded>>
    /\ UNCHANGED <<book_vars, servicer_vars>>

call_get_best_ask(c) ==
    /\ client' = [client EXCEPT ![c] = get_best_ask(@).self]
    /\ call' = [op |-> "get_best_ask", self |-> c, arg |-> None,
                result |-> get_best_ask(client[c]).result]
    /\ UNCHANGED <<loop, loop_tasks, client_queues, queue, session, stream, applied,
                   running_simulations, snap_seq, yielded>>
    /\ UNCHANGED <<book_vars, servicer_vars>>

NextReplica ==
    \/ call_apply_snapshot(1)
    \/ call_apply_update(1)
    \/ call_get_best_bid(1)
    \/ call_get_best_ask(1)

SpecReplica == Init /\ [][NextReplica]_vars

\* the servicer with its instruments: the simulation threads, the
\* subscriptions that come and go and the coroutines of the event loop
NextServicer ==
    \/ \E c \in Clients, instrument_id \in Instruments :
           subscribe_request(c, instrument_id)
    \/ run_SubscribeMarketData
    \/ \E c \in Clients : stream_response(c)
    \/ \E c \in Clients : cancel(c)
    \/ run_finally
    \/ \E instrument_id \in Instruments : simulate_market_data(instrument_id)
    \/ run_put_response_into_queue
    \/ run_queue_put
    \/ run_resume

SpecServicer == Init /\ [][NextServicer]_vars

\* add_order called with any values an Order can be built from: prices and
\* quantities down to zero and below, and an order_type that is neither
\* "limit" nor "market" (Order and add_order check none of them)
AnyPrices == 0..MaxPrice
AnyQuantities == (0 - 1)..MaxQty
AnyOrderTypes == OrderTypes \cup {"stop"}

SubmitInvalid ==
    \E price \in AnyPrices, quantity \in AnyQuantities, side \in BOOLEAN,
       order_type \in AnyOrderTypes :
        add_order(price, quantity, side, order_type, 1, MaxInvalidOrders)

NextInvalid ==
    \/ SubmitInvalid
    \/ match_buy
    \/ match_sell
    \/ add_order_rest

SpecInvalid == Init /\ [][NextInvalid]_vars

\* ------------------------------------------------------------------ helpers
Range(seq) == {seq[i] : i \in DOMAIN seq}

Last(seq) == seq[Len(seq)]

\* the quantity a dumped side (a list of <<price, quantity>>) shows at a price,
\* 0 when the price is not listed
LevelQty(levels, price) ==
    IF \E i \in DOMAIN levels : levels[i][1] = price
    THEN LET i == CHOOSE i \in DOMAIN levels : levels[i][1] = price
         IN  levels[i][2]
    ELSE 0

SideOf(book, side) == IF side THEN book.bids ELSE book.asks

\* a ClientOrderBook that applied updates[1..n] in order
RECURSIVE Replay(_, _)
Replay(updates, n) ==
    IF n = 0 THEN ClientOrderBook
    ELSE apply_update(Replay(updates, n - 1), updates[n].update)

\* the updates emitted so far by the running add_order call
CallUpdates == {i \in DOMAIN emitted : i > emit_mark}

TradeAppended == Len(trade_log') = Len(trade_log) + 1

\* ------------------------------------------------------------------- claims

\* C1: whenever add_order has returned and both heaps are non-empty, the
\* highest resting buy price is strictly less than the lowest resting sell
\* price.
C1_BookNeverCrossed ==
    (pc = "idle" /\ buy_heap # <<>> /\ sell_heap # <<>>)
        => \A b \in Range(buy_heap), s \in Range(sell_heap) : b.price < s.price

\* C1 witness: add_order has returned, an incoming limit buy crossed, traded
\* and rested with what was left, and asks remain.
C1_Witness ==
    /\ pc = "idle"
    /\ sell_heap # <<>>
    /\ \E b \in Range(buy_heap) :
         \E i \in DOMAIN trade_log : trade_log[i].buy_order_id = b.order_id
                                      /\ trade_log[i].sell_order_id < b.order_id

\* C2 (as claimed): a ClientOrderBook that applied its snapshot and then
\* every update it received holds, after each update, the aggregate levels
\* the server book had when that update was produced; two subscribers hold
\* equal maps after an update both have applied.
C2_ClientTracksServer ==
    /\ \A c \in Clients :
         applied[c] > 0 =>
            LET book == emitted[applied[c]].book
            IN  /\ client[c].bids = FillLevels(<<>>, book.bids)
                /\ client[c].asks = FillLevels(<<>>, book.asks)
    /\ \A c1, c2 \in Clients :
         (applied[c1] > 0 /\ applied[c1] = applied[c2]) =>
            /\ client[c1].bids = client[c2].bids
            /\ client[c1].asks = client[c2].asks

\* C3 (as claimed): after any sequence of add_order calls on an initially
\* empty book, dump_book() applied as a snapshot to an empty ClientOrderBook
\* gives the same bids and asks as applying every emitted level update, in
\* emission order, to an empty ClientOrderBook.
C3_RoundTrip ==
    pc = "idle" =>
        LET d == dump_book(buy_heap, sell_heap)
            from_snapshot == apply_snapshot(ClientOrderBook,
                                            OrderBookSnapshot(d.bids, d.asks, now))
            from_updates == Replay(emitted, Len(emitted))
        IN  /\ from_snapshot.bids = from_updates.bids
            /\ from_snapshot.asks = from_updates.asks

\* C4 (as claimed): every level update emitted for a level that is not
\* emptied carries the aggregate resting quantity of that (price, side) at
\* the moment of emission.
C4_UpdateCarriesAggregate ==
    \A i \in DOMAIN emitted :
        LET u == emitted[i].update
            resting == LevelQty(SideOf(emitted[i].book, u.side), u.price)
        IN  resting > 0 => u.quantity = resting

\* C5 (as claimed): a level update with quantity 0 is emitted only when no
\* order rests at that (price, side) at the moment of emission.
C5_ZeroMeansLevelRemoved ==
    \A i \in DOMAIN emitted :
        LET u == emitted[i].update
        IN  u.quantity = 0
                => LevelQty(SideOf(emitted[i].book, u.side), u.price) = 0

\* C6 (as claimed): whenever add_order rests a LIMIT order, exactly one level
\* update is emitted for the order's own (price, side), carrying the new
\* aggregate quantity of that level.
C6_RestEmitsOneUpdate ==
    [][(pc = "match" /\ pc' = "idle"
            /\ order.order_type = "limit" /\ order.quantity > 0)
        => LET own == {i \in DOMAIN emitted' :
                          /\ i > emit_mark
                          /\ emitted'[i].update.price = order.price
                          /\ emitted'[i].update.side = order.side}
               d == dump_book(buy_heap', sell_heap')
           IN  /\ Cardinality(own) = 1
               /\ \A i \in own :
                    emitted'[i].update.quantity
                        = LevelQty(SideOf(d, order.side), order.price)]_vars

\* C7 (as claimed): within a single add_order call at most one level update
\* is emitted per affected (price, side).
C7_OneUpdatePerLevelPerCall ==
    \A i, j \in CallUpdates :
        (i # j) => ~(/\ emitted[i].update.price = emitted[j].update.price
                     /\ emitted[i].update.side = emitted[j].update.side)

\* C8 (as claimed): among orders resting at the same price on the same side,
\* fills happen in submission order (order ids are handed out in submission
\* order): no order is filled while an earlier-submitted order at that price
\* still rests, also when the two carry equal timestamps.
C8_TimePriority ==
    [][TradeAppended =>
        LET t == Last(trade_log')
            resting == IF order.side THEN sell_heap ELSE buy_heap
            maker_id == IF order.side THEN t.sell_order_id ELSE t.buy_order_id
        IN  \A o \in Range(resting) : o.price = t.price => maker_id <= o.order_id]_vars

\* C9: every trade of an incoming buy is against an order at the lowest ask
\* price in the book at that moment, every trade of an incoming sell against
\* an order at the highest bid price; a LIMIT order never trades at a price
\* worse than its own limit.
C9_PricePriority ==
    [][TradeAppended =>
        LET t == Last(trade_log')
        IN  IF order.side
            THEN /\ \E m \in Range(sell_heap) :
                       /\ m.order_id = t.sell_order_id
                       /\ \A s \in Range(sell_heap) : m.price <= s.price
                 /\ order.order_type = "limit" => t.price <= order.price
            ELSE /\ \E m \in Range(buy_heap) :
                       /\ m.order_id = t.buy_order_id
                       /\ \A b \in Range(buy_heap) : m.price >= b.price
                 /\ order.order_type = "limit" => t.price >= order.price]_vars

\* C9 witness: an incoming buy has just traded while a worse-priced ask
\* rests in the book.
C9_Witness ==
    /\ pc = "match"
    /\ order.side
    /\ trade_log # <<>>
    /\ Last(trade_log).buy_order_id = order.order_id
    /\ \E s \in Range(sell_heap) : s.price > Last(trade_log).price

\* C10: every Trade appended to trade_log has the price of the resting
\* (maker) order it was matched against, and buy_order_id / sell_order_id
\* name the buy-side and the sell-side order.
C10_TradeAtMakerPrice ==
    [][TradeAppended =>
        LET t == Last(trade_log')
        IN  IF order.side
            THEN /\ t.buy_order_id = order.order_id
                 /\ \E m \in Range(sell_heap) :
                       m.order_id = t.sell_order_id /\ ~m.side /\ t.price = m.price
            ELSE /\ t.sell_order_id = order.order_id
                 /\ \E m \in Range(buy_heap) :
                       m.order_id = t.buy_order_id /\ m.side /\ t.price = m.price]_vars

\* C10 witness: an incoming limit buy has just traded at a price that is not
\* its own.
C10_Witness ==
    /\ pc = "match"
    /\ order.side
    /\ order.order_type = "limit"
    /\ trade_log # <<>>
    /\ Last(trade_log).buy_order_id = order.order_id
    /\ Last(trade_log).price # order.price

\* the prices a dumped side lists
LevelPrices(levels) == {levels[i][1] : i \in DOMAIN levels}

\* the total quantity a dumped side lists
RECURSIVE TotalQty(_)
TotalQty(levels) ==
    IF levels = <<>> THEN 0 ELSE Head(levels)[2] + TotalQty(Tail(levels))

\* the sum of the quantities of trade_log[from + 1 .. Len(trade_log)]
RECURSIVE TradedSince(_, _)
TradedSince(log, from) ==
    IF Len(log) <= from THEN 0
    ELSE log[Len(log)].quantity + TradedSince(SubSeq(log, 1, Len(log) - 1), from)

\* no resting order of the opposite side is price-compatible with limit order o
DoesNotCross(o, book) ==
    IF o.side
    THEN \A p \in LevelPrices(book.asks) : p > o.price
    ELSE \A p \in LevelPrices(book.bids) : p < o.price

\* C11: an add_order call with a LIMIT order that crosses nothing returns
\* with no trade appended, the dump_book aggregate of the order's own
\* (price, side) larger by exactly the order's quantity, and every other
\* level of both sides as it was when the call began.
C11_NonCrossingLimitRests ==
    [][(pc = "match" /\ pc' = "idle" /\ entry.order.order_type = "limit"
            /\ DoesNotCross(entry.order, entry.book))
        => LET o == entry.order
               before == entry.book
               after == dump_book(buy_heap', sell_heap')
           IN  /\ trade_log' = trade_log
               /\ Len(trade_log) = entry.trades
               /\ SideOf(after, ~o.side) = SideOf(before, ~o.side)
               /\ \A p \in LevelPrices(SideOf(before, o.side))
                           \cup LevelPrices(SideOf(after, o.side)) :
                    LevelQty(SideOf(after, o.side), p)
                        = LevelQty(SideOf(before, o.side), p)
                          + (IF p = o.price THEN o.quantity ELSE 0)]_vars

\* C11 witness: a LIMIT order that crossed nothing has rested on a level that
\* already held quantity, with the opposite side non-empty.
C11_Witness ==
    /\ pc = "idle"
    /\ entry.order.order_type = "limit"
    /\ DoesNotCross(entry.order, entry.book)
    /\ SideOf(entry.book, ~entry.order.side) # <<>>
    /\ LevelQty(SideOf(entry.book, entry.order.side), entry.order.price) > 0
    /\ LevelQty(SideOf(dump_book(buy_heap, sell_heap), entry.order.side),
                entry.order.price)
         = LevelQty(SideOf(entry.book, entry.order.side), entry.order.price)
           + entry.order.quantity

\* C12: an add_order call with a MARKET order whose quantity exceeds the
\* total resting quantity of the opposite side returns with trades that sum
\* to exactly that total, the opposite side empty, the order's own side as
\* it was (what is left of the order is discarded) and no level update for
\* the order's side; the order's price, any of Prices, plays no part.
C12_MarketExhaustsLiquidity ==
    [][(pc = "match" /\ pc' = "idle" /\ entry.order.order_type = "market"
            /\ entry.order.quantity
                 > TotalQty(SideOf(entry.book, ~entry.order.side)))
        => LET o == entry.order
               before == entry.book
               after == dump_book(buy_heap', sell_heap')
           IN  /\ TradedSince(trade_log', entry.trades)
                    = TotalQty(SideOf(before, ~o.side))
               /\ (IF o.side THEN sell_heap' ELSE buy_heap') = <<>>
               /\ SideOf(after, ~o.side) = <<>>
               /\ (IF o.side THEN buy_heap' = buy_heap ELSE sell_heap' = sell_heap)
               /\ SideOf(after, o.side) = SideOf(before, o.side)
               /\ \A i \in DOMAIN emitted' :
                    i > emit_mark => emitted'[i].update.side # o.side]_vars

\* C12 witness: a MARKET order larger than the whole opposite side has
\* returned after trading, at a price at which a LIMIT order would not have
\* taken every resting order, while its own side held resting orders.
C12_Witness ==
    /\ pc = "idle"
    /\ entry.order.order_type = "market"
    /\ entry.order.quantity > TotalQty(SideOf(entry.book, ~entry.order.side))
    /\ SideOf(entry.book, ~entry.order.side) # <<>>
    /\ SideOf(entry.book, entry.order.side) # <<>>
    /\ \E p \in LevelPrices(SideOf(entry.book, ~entry.order.side)) :
         IF entry.order.side THEN p > entry.order.price ELSE p < entry.order.price
    /\ Len(trade_log) > entry.trades

\* the orders C13 calls invalid
InvalidOrder(o) ==
    \/ o.quantity <= 0
    \/ o.order_type = "limit" /\ o.price <= 0
    \/ o.order_type \notin {"limit", "market"}

\* C13 (as claimed): an add_order call with quantity <= 0, with price <= 0
\* on a LIMIT order, or with an order_type other than limit and market
\* leaves both heaps and trade_log unchanged and emits no level update.
C13_InvalidOrderLeavesBook ==
    [][(pc = "match" /\ InvalidOrder(entry.order))
        => UNCHANGED <<buy_heap, sell_heap, trade_log, emitted>>]_vars

\* C14 (as claimed): no update produced before the dump_book of a
\* subscription's snapshot was read is ever in that subscription's queue or
\* among the responses sent on its stream.
C14_AttachAtomicity ==
    \A c \in Clients :
        session[c] = "streaming" =>
            /\ \A i \in DOMAIN queue[c] : queue[c][i].seq > snap_seq[c]
            /\ \A i \in DOMAIN stream[c] :
                 stream[c][i].kind = "update" => stream[c][i].seq > snap_seq[c]

\* C15: on every subscription stream the first response yielded is a
\* snapshot and no response yielded after it is a snapshot.
C15_SnapshotFirstAndOnce ==
    [][\A c \in Clients :
         yielded'[c] = yielded[c] + 1
            => /\ Len(stream'[c]) = Len(stream[c]) + 1
               /\ (Last(stream'[c]).kind = "snapshot") <=> (yielded[c] = 0)]_vars

\* C15 witness: a subscription was sent its snapshot and two updates after it.
C15_Witness ==
    \E c \in Clients :
        /\ yielded[c] = 3
        /\ Len(stream[c]) = 3
        /\ stream[c][1].kind = "snapshot"
        /\ stream[c][2].kind = "update"
        /\ stream[c][3].kind = "update"

\* the updates of a subscription in the order it gets them: those already
\* yielded on its stream, then those waiting in its queue
Pipeline(c) ==
    SelectSeq(stream[c], LAMBDA response : response.kind = "update") \o queue[c]

\* C16: every subscriber gets updates in emission order, the order of the
\* _notify_update calls (seq): so all subscribers see the same relative
\* order, and timestamps that never decrease.
C16_EmissionOrder ==
    \A c \in Clients :
        /\ \A i, j \in DOMAIN Pipeline(c) :
             i < j => /\ Pipeline(c)[i].seq < Pipeline(c)[j].seq
                      /\ Pipeline(c)[i].timestamp <= Pipeline(c)[j].timestamp
        /\ \A i \in DOMAIN Pipeline(c) : applied[c] < Pipeline(c)[i].seq

\* C16 witness: two subscribers were each sent the same two updates after
\* their snapshots.
C16_Witness ==
    /\ \A c \in Clients : Len(stream[c]) = 3 /\ stream[c][1].kind = "snapshot"
    /\ \A c, d \in Clients : stream[c][2] = stream[d][2] /\ stream[c][3] = stream[d][3]
    /\ \E c \in Clients : stream[c][2].kind = "update" /\ stream[c][3].kind = "update"

\* C17 (as claimed, for the least capacity a subscriber buffer can be
\* configured with, 1): a subscriber queue never holds more undelivered
\* updates than its capacity.
C17_QueueBounded == \A c \in Clients : Len(queue[c]) <= 1

\* C18: the engine never blocks on subscribers: whatever the subscriptions,
\* their queues and the coroutines still scheduled, a running add_order call
\* can take its next step (a match with its update callback, or the return).
C18_EngineNeverBlocks ==
    pc = "match" => ENABLED (match_buy \/ match_sell \/ add_order_rest)

\* C18 witness: an add_order call is about to trade and call the update
\* callback while two subscribers are registered and one of them has an
\* earlier update waiting in its queue that it has not taken.
C18_Witness ==
    /\ pc = "match"
    /\ IF order.side THEN CanMatchBuy ELSE CanMatchSell
    /\ Len(client_queues) = 2
    /\ \E c \in Clients : session[c] = "streaming" /\ queue[c] # <<>>

ClientSide(book, side) == IF side THEN book.bids ELSE book.asks

\* C20: apply_update(u) changes only the map selected by u.side and there
\* only the entry at u.price: a quantity above 0 sets the entry to it
\* (creating it if absent), quantity 0 removes the entry (nothing happens if
\* it is absent); every other level of both maps stays as it was.
C20_ApplyUpdateFrame ==
    [][\A c \in Clients :
         (stream[c] # <<>> /\ stream'[c] = Tail(stream[c])
             /\ Head(stream[c]).kind = "update")
          => LET u == Head(stream[c])
                 old == ClientSide(client[c], u.side)
                 new == ClientSide(client'[c], u.side)
             IN  /\ ClientSide(client'[c], ~u.side) = ClientSide(client[c], ~u.side)
                 /\ DOMAIN new \ {u.price} = DOMAIN old \ {u.price}
                 /\ \A p \in DOMAIN old \ {u.price} : new[p] = old[p]
                 /\ u.quantity > 0 => u.price \in DOMAIN new /\ new[u.price] = u.quantity
                 /\ u.quantity = 0 => u.price \notin DOMAIN new]_vars

\* C20 witness: a client that has applied an update before is handed an
\* update of quantity 0 for a level it holds, while it holds another level on
\* the same side and levels on the other side.
C20_Witness ==
    \E c \in Clients :
        /\ applied[c] = 1
        /\ stream[c] # <<>>
        /\ Head(stream[c]).kind = "update"
        /\ Head(stream[c]).quantity = 0
        /\ Head(stream[c]).price \in DOMAIN ClientSide(client[c], Head(stream[c]).side)
        /\ Cardinality(DOMAIN ClientSide(client[c], Head(stream[c]).side)) = 2
        /\ ClientSide(client[c], ~Head(stream[c]).side) # <<>>

\* what a caller can see of a ClientOrderBook: the maps, the best bid, the
\* best ask and the top levels
Observable(book) ==
    [bids |-> book.bids, asks |-> book.asks,
     best_bid |-> get_best_bid(book).result,
     best_ask |-> get_best_ask(book).result,
     top |-> get_top_n_levels_list(book, TopN)]

\* the dict holds exactly the levels of a snapshot side
HoldsExactly(dict, levels) ==
    /\ DOMAIN dict = LevelPrices(levels)
    /\ \A i \in DOMAIN levels : dict[levels[i][1]] = levels[i][2]

\* C21: after apply_snapshot(s), whatever was applied before, bids and asks
\* hold exactly the levels of s, and applying s once more leaves the
\* observable state (maps, best bid, best ask, top levels) as it is.
C21_SnapshotReplaces ==
    call.op = "apply_snapshot" =>
        LET book == client[call.self]
        IN  /\ HoldsExactly(book.bids, call.arg.bids)
            /\ HoldsExactly(book.asks, call.arg.asks)
            /\ Observable(apply_snapshot(book, call.arg)) = Observable(book)

\* C21 witness: a snapshot with one bid level and one ask level, one of them
\* of quantity 0, has just been applied.
C21_Witness ==
    /\ call.op = "apply_snapshot"
    /\ Len(call.arg.bids) = 1
    /\ Len(call.arg.asks) = 1
    /\ call.arg.bids[1][2] = 0
    /\ call.arg.asks[1][2] > 0
    /\ client[call.self].asks # <<>>

\* C22 (as claimed): an update whose timestamp is not greater than that of
\* the last applied snapshot or update (one was applied: the book's
\* last_update_timestamp is no longer the 0 of a new book) leaves bids, asks
\* and last_update_timestamp of the ClientOrderBook unchanged.
C22_StaleUpdateDiscarded ==
    [][\A c \in Clients :
         (stream[c] # <<>> /\ stream'[c] = Tail(stream[c])
             /\ Head(stream[c]).kind = "update"
             /\ client[c].last_update_timestamp > 0
             /\ Head(stream[c]).timestamp <= client[c].last_update_timestamp)
          => /\ client'[c].bids = client[c].bids
             /\ client'[c].asks = client[c].asks
             /\ client'[c].last_update_timestamp
                  = client[c].last_update_timestamp]_vars

\* the sum of the quantities of the orders of a heap that rest at a price
RECURSIVE RestingAt(_, _)
RestingAt(heap, price) ==
    IF heap = <<>> THEN 0
    ELSE (IF Head(heap).price = price THEN Head(heap).quantity ELSE 0)
         + RestingAt(Tail(heap), price)

\* a dumped side lists every price of the heap once, with the sum of what
\* rests there, never 0
AggregatesOf(levels, heap) ==
    /\ LevelPrices(levels) = {heap[i].price : i \in DOMAIN heap}
    /\ \A i, j \in DOMAIN levels : i # j => levels[i][1] # levels[j][1]
    /\ \A i \in DOMAIN levels :
         levels[i][2] = RestingAt(heap, levels[i][1]) /\ levels[i][2] > 0

\* C23: when no add_order is in progress dump_book returns bids in strictly
\* descending and asks in strictly ascending price order, every price once,
\* every quantity the sum of the remaining quantities of the orders resting
\* at that price on that side, and no level of quantity 0.
C23_DumpBookSortedAggregates ==
    pc = "idle" =>
        LET d == dump_book(buy_heap, sell_heap)
        IN  /\ \A i, j \in DOMAIN d.bids : i < j => d.bids[i][1] > d.bids[j][1]
            /\ \A i, j \in DOMAIN d.asks : i < j => d.asks[i][1] < d.asks[j][1]
            /\ AggregatesOf(d.bids, buy_heap)
            /\ AggregatesOf(d.asks, sell_heap)

\* C23 witness: no add_order is in progress and the bids hold two price
\* levels, one of them made of more than one resting order.
C23_Witness ==
    /\ pc = "idle"
    /\ Len(dump_book(buy_heap, sell_heap).bids) = 2
    /\ Len(buy_heap) > 2

\* the snapshots a subscription was sent with the timestamp of the running
\* add_order call: those whose dump_book was read while the call ran
SnapshotsReadInCall(c) ==
    {i \in DOMAIN stream[c] :
        stream[c][i].kind = "snapshot" /\ stream[c][i].timestamp = now}

\* C24 (as claimed): a snapshot read by SubscribeMarketData while an
\* add_order call runs equals the book either as it was before that call or
\* as it is after it (so it shows no half-applied match).
C24_SnapshotSerialized ==
    [][(pc = "match" /\ pc' = "idle")
        => \A c \in Clients : \A i \in SnapshotsReadInCall(c) :
             LET seen == [bids |-> stream[c][i].bids, asks |-> stream[c][i].asks]
             IN  \/ seen = entry.book
                 \/ seen = dump_book(buy_heap', sell_heap')]_vars

\* the first entry of a side of get_top_n_levels_list, None when it is empty
FirstLevel(levels) == IF levels = <<>> THEN None ELSE levels[1]

\* C27 (as claimed): after any sequence of apply_snapshot, apply_update,
\* get_best_bid and get_best_ask calls, get_best_bid returns the highest
\* price of bids with a quantity above 0 and get_best_ask the lowest of asks,
\* None exactly when there is none: the first entries of
\* get_top_n_levels_list.
C27_BestAgreesWithTop ==
    \A c \in Clients :
        LET top == get_top_n_levels_list(client[c], TopN)
        IN  /\ get_best_bid(client[c]).result = FirstLevel(top.bids)
            /\ get_best_ask(client[c]).result = FirstLevel(top.asks)

\* C28 (as claimed): whenever at least one subscriber is attached to the
\* instrument, its simulation is running (so a subscriber that attaches
\* after the last one left is sent updates again).
C28_SimulationRunsWhileSubscribed ==
    client_queues # <<>> => running_simulations

RECURSIVE SumQuantity(_)
SumQuantity(seq) ==
    IF seq = <<>> THEN 0 ELSE Head(seq).quantity + SumQuantity(Tail(seq))

\* the sum of the quantities of the trades that name an order
TradedOf(order_id) ==
    SumQuantity(SelectSeq(trade_log,
        LAMBDA t : t.buy_order_id = order_id \/ t.sell_order_id = order_id))

\* the quantity an order has resting in a heap
RestingOf(order_id) ==
    SumQuantity(SelectSeq(buy_heap \o sell_heap,
        LAMBDA o : o.order_id = order_id))

\* C30: between add_order calls, every order submitted with a positive
\* quantity has its original quantity accounted for: a limit order's is the
\* sum of its trades plus what it has resting in a heap, a market order's the
\* sum of its trades plus a discarded remainder (it never rests); every trade
\* and every resting order has a quantity above 0.
C30_QuantityConserved ==
    pc = "idle" =>
        /\ \A order_id \in DOMAIN submitted :
             submitted[order_id].quantity > 0 =>
                 IF submitted[order_id].order_type = "limit"
                 THEN submitted[order_id].quantity
                          = TradedOf(order_id) + RestingOf(order_id)
                 ELSE /\ RestingOf(order_id) = 0
                      /\ TradedOf(order_id) <= submitted[order_id].quantity
        /\ \A i \in DOMAIN trade_log : trade_log[i].quantity > 0
        /\ \A o \in Range(buy_heap) \cup Range(sell_heap) : o.quantity > 0

\* a limit order partly traded and partly resting, and a market order whose
\* remainder was discarded
C30_Witness ==
    /\ pc = "idle"
    /\ \E order_id \in DOMAIN submitted :
         /\ submitted[order_id].order_type = "limit"
         /\ TradedOf(order_id) > 0
         /\ RestingOf(order_id) > 0
    /\ \E order_id \in DOMAIN submitted :
         /\ submitted[order_id].order_type = "market"
         /\ TradedOf(order_id) > 0
         /\ TradedOf(order_id) < submitted[order_id].quantity

\* C29 (as claimed): the event loop never deadlocks on the servicer lock: in
\* no reachable state is a _put_response_into_queue coroutine suspended at
\* its await with self.lock held while another coroutine of the loop is
\* stuck acquiring the lock.
C29_LoopNeverBlocksOnLock ==
    ~(servicer.lock /\ event_loop.blocked)

\* C25: whatever the order in which the subscriptions to an instrument are
\* served, pre-configured or first seen in a request, at most one OrderBook
\* is ever constructed and at most one simulation thread ever started for
\* it, and all its subscribers read their snapshot from the same book.
C25_InstrumentCreatedOnce ==
    /\ \A instrument_id \in Instruments :
         /\ servicer.books_created[instrument_id] <= 1
         /\ servicer.simulation_threads[instrument_id] <= 1
    /\ \A c, d \in Clients :
         (/\ subscriptions[c].book # None
          /\ subscriptions[d].book # None
          /\ subscriptions[c].instrument_id = subscriptions[d].instrument_id)
         => subscriptions[c].book = subscriptions[d].book

\* two subscriptions to an instrument first seen in a request have both been
\* served
C25_Witness ==
    /\ \A c \in Clients :
         /\ subscriptions[c].instrument_id \notin SIMULATED_INSTRUMENTS
         /\ subscriptions[c].book # None
    /\ Cardinality(Clients) > 1

\* the instruments whose book this step changes
BooksChanged ==
    {i \in Instruments : servicer'.order_books[i] # servicer.order_books[i]}

\* the responses this step puts into the queue of subscription c
Enqueued(c) ==
    IF Len(subscriptions'[c].queue) > Len(subscriptions[c].queue)
    THEN {subscriptions'[c].queue[k] :
            k \in (Len(subscriptions[c].queue) + 1)..Len(subscriptions'[c].queue)}
    ELSE {}

====
